---- MODULE Spec2Model ----
(***************************************************************************)
(* Database lifecycle of the geoip-api service (main.go): initDatabases,   *)
(* the background updater (startDatabaseUpdater, updateDatabasesIfNeeded), *)
(* downloadDatabase and the per-entry guarded lookups of getIPInfo.        *)
(*                                                                         *)
(* Time is counted in days.  A file is a record of its content and its     *)
(* modification time; a reader handle is a record of the content it was    *)
(* opened from and the number of Close calls made on it.                   *)
(***************************************************************************)
EXTENDS Integers, Sequences, FiniteSets, TLC

\* ------------------------------------------------------------ bounds ----
Horizon   == 2       \* days of wall-clock time that pass after start
MaxFaults == 2       \* failures the environment injects in one run

\* ------------------------------------------------- program constants ----
StaleDays == 30      \* 30*24*time.Hour
TickDays  == 1       \* time.NewTicker(24 * time.Hour)

\* ------------------------------------------------------------ domains ---
Entries  == {"asn", "city", "country"}
Workers  == {"w1", "w2"}           \* concurrent request handlers
Versions == {1}                    \* bodies the remote server serves

Day0   == StaleDays + 10          \* wall-clock day of process start
MaxDay == Day0 + Horizon

Nil     == 0                      \* nil Reader
Zero    == 0                      \* zero time.Time
NoEntry == "-"

Absent  == "absent"               \* no file at the path
Empty   == "empty"                \* created/truncated, nothing written
Partial == "partial"              \* body partly written
Full    == "full"                 \* body completely written

LocalPath(e) == <<e, "db">>       \* db.localPath
Paths == Entries \X {"db", "new"}

File(c, v, t) == [content |-> c, ver |-> v, mtime |-> t]
AbsentFile == File(Absent, 0, Zero)

\* files that may be present at localPath when the process starts
InitMTimes == {Day0 - StaleDays + 1, Day0 - StaleDays + 2}
InitFiles  == {AbsentFile, File(Empty, 0, Day0 - 1), File(Partial, 0, Day0 - 1)}
                \cup {File(Full, 0, m) : m \in InitMTimes}

VARIABLES
    fs,          \* file system: path -> file
    reader,      \* db.reader: index into handles[e], Nil when nil
    lastUpdate,  \* db.lastUpdate
    handles,     \* per entry, every reader handle ever opened
    wlock,       \* db.mutex writer side: "free", "pending", "held"
    readers,     \* db.mutex reader side: workers holding RLock
    now,         \* wall clock
    faults,      \* failures injected so far (download, rename, open, stat,
                 \* close)
    tickAt,      \* time at which the ticker next delivers
    ipc, ipending, icur,            \* initDatabases: position, range state
    upc, upending, ucur,            \* updater: position, range state
    outcome,     \* per entry, how the visit of the running cycle ended
    ageAt,       \* per entry, time.Since(lastUpdate) read by the cycle
    dlCalls,     \* per entry, downloadDatabase calls made by the cycle
    cycleStart,  \* time of the tick that started the running cycle
    snap,        \* entry state when the cycle reached the current entry
    swapFailed,  \* entries for which some cycle logged a rename/open failure
    closeErr,    \* what Close returned in the current visit: "none" (not
                 \* called), "nil" or "err"
    rpc, stage, res,                \* request handlers
    cfgDisk,     \* the configuration file and its directory
    config,      \* the global Config
    bpc,         \* main: position before initDatabases
    httpReq,     \* the request handleRequest was last called with
    httpResp,    \* what it wrote to the ResponseWriter
    dlEnv,       \* what a downloadDatabase call meets: disk and server
    dlErr,       \* the error it returned
    bootErr      \* the error main last got from a start-up call

vars == <<fs, reader, lastUpdate, handles, wlock, readers, now, faults, tickAt,
          ipc, ipending, icur, upc, upending, ucur, outcome, ageAt, dlCalls,
          cycleStart, snap, swapFailed, closeErr, rpc, stage, res,
          cfgDisk, config, bpc, httpReq, httpResp, dlEnv, dlErr, bootErr>>

dbVars   == <<fs, reader, lastUpdate, handles>>
lockVars == <<wlock, readers>>
initVars == <<ipc, ipending, icur>>
updVars  == <<upc, upending, ucur, outcome, ageAt, dlCalls, cycleStart, snap,
              swapFailed, closeErr>>
reqVars  == <<rpc, stage, res>>
bootVars == <<cfgDisk, config, bpc, bootErr>>
httpVars == <<httpReq, httpResp>>
dlVars   == <<dlEnv, dlErr>>
frontVars == <<bootVars, httpVars, dlVars>>

NotSeen == -1
NoSnap  == [reader |-> Nil, handles |-> <<>>, lastUpdate |-> Zero,
            file |-> AbsentFile]

\* ------------------------------------------------------------ helpers ---
\* geoip2.Open succeeds only on a completely written database file
Openable(f) == f.content = Full

NewHandle(f) == [src |-> f.ver, closes |-> 0]

\* the handle db.reader points at is open (Close was never called on it)
ReaderOpen(e) == reader[e] # Nil /\ handles[e][reader[e]].closes = 0

\* db.reader.Close()
CloseReader(e) ==
    [handles EXCEPT ![e][reader[e]].closes = @ + 1]


\* os.Create(localPath): the file exists and is empty
FsCreate(p) == [fs EXCEPT ![p] = File(Empty, 0, now)]

\* (bug variant: a download that breaks off removes its file)
FsCopyFailRemoved(p) == [fs EXCEPT ![p] = AbsentFile]

\* io.Copy stopped by an error: part of the body is on disk
FsCopyFail(p) == [fs EXCEPT ![p] = File(Partial, 0, now)]

\* (bug variant: what reaches the disk is not the body served)
FsCopyOkOther(p, v) == [fs EXCEPT ![p] = File(Full, 0, now)]

\* io.Copy to the end: the whole body v is on disk
FsCopyOk(p, v) == [fs EXCEPT ![p] = File(Full, v, now)]

\* (bug variant: the rename reports success and moves nothing)
FsRenameNoop(from, to) == fs

\* os.Rename(from, to)
FsRename(from, to) == [fs EXCEPT ![to] = fs[from], ![from] = AbsentFile]

\* an injected failure uses up one unit of the fault budget
Fault   == faults < MaxFaults /\ faults' = faults + 1
NoFault == faults' = faults

\* ----------------------------------- configuration, requests, downloads -
\* data of the start-up, of request handling and of downloadDatabase that
\* the initial state refers to
NoErr == "nil"                    \* a nil error

\* Config (the Port field plays no part here and is left out)
Conf(h, s, c, k) == [Host |-> h, SSL |-> s, Cert |-> c, Key |-> k]

defaultConfig == Conf(<<>>, FALSE, "", "")

\* the configuration file: missing, unreadable as JSON, or the JSON of c
CfgFile(kind, c) == [kind |-> kind, conf |-> c]
AbsentCfg  == CfgFile("absent", defaultConfig)
GarbageCfg == CfgFile("garbage", defaultConfig)
JsonCfg(c) == CfgFile("json", c)

\* the directory part of configPath: none ("."), an existing directory, a
\* directory that is not there yet ("missing"), or one os.MkdirAll has made
Disk(dir, file) == [dir |-> dir, file |-> file]

\* net/http status codes written by the handlers
StatusOK                  == 200
StatusBadRequest          == 400
StatusForbidden           == 403
StatusInternalServerError == 500

\* an *http.Request: Host, URL.Path, the X-Forwarded-For and X-Real-IP
\* headers, RemoteAddr
Request(h, p, f, x, a) ==
    [host |-> h, path |-> p, xff |-> f, xreal |-> x, remote |-> a]

\* what a handler wrote: status, body, the address string handed to
\* handleIPLookup (if any) and the database lookups made, in order
Resp(status, body, ip, calls) ==
    [status |-> status, body |-> body, ip |-> ip, calls |-> calls]

NoRequest  == Request(<<>>, <<>>, <<>>, <<>>, <<>>)
NoResponse == Resp(0, <<>>, <<>>, <<>>)

\* what a call meets: the destination path, whether os.Create and http.Get
\* succeed, the response status, whether io.Copy reaches the end, the body
DlEnv(p, createOk, getOk, status, copyOk, body) ==
    [dest |-> p, createOk |-> createOk, getOk |-> getOk, status |-> status,
     copyOk |-> copyOk, body |-> body]

\* main has loaded and accepted the default configuration
BootIdle ==
    /\ cfgDisk = Disk("cwd", JsonCfg(defaultConfig))
    /\ config = defaultConfig
    /\ bpc = "run"
    /\ bootErr = NoErr

\* no request has been handled
HttpIdle == httpReq = NoRequest /\ httpResp = NoResponse

\* no stand-alone downloadDatabase call is under way
DlIdle ==
    /\ dlEnv = DlEnv(LocalPath("asn"), TRUE, TRUE, StatusOK, TRUE, 1)
    /\ dlErr = NoErr

\* --------------------------------------------------------------- Init ---
\* mutable fields of every dbConfig are empty; nothing runs yet
Fields ==
    /\ reader = [e \in Entries |-> Nil]
    /\ lastUpdate = [e \in Entries |-> Zero]
    /\ handles = [e \in Entries |-> <<>>]
    /\ wlock = [e \in Entries |-> "free"]
    /\ readers = [e \in Entries |-> {}]
    /\ now = Day0
    /\ faults = 0
    /\ tickAt = Zero
    /\ ipc = "visit" /\ ipending = Entries /\ icur = NoEntry
    /\ upc = "off" /\ upending = {} /\ ucur = NoEntry
    /\ outcome = [e \in Entries |-> "none"]
    /\ ageAt = [e \in Entries |-> NotSeen]
    /\ dlCalls = [e \in Entries |-> 0]
    /\ cycleStart = Zero
    /\ snap = NoSnap
    /\ swapFailed = {}
    /\ closeErr = "none"
    /\ rpc = [w \in Workers |-> "off"]
    /\ stage = [w \in Workers |-> NoEntry]
    /\ res = [w \in Workers |-> "none"]

\* Start-up and the updater treat the three entries alike, so of the start
\* configurations that differ only by a permutation of the entries one is
\* kept: the local files are ordered by kind along asn, city, country.
Kind(f) == IF f.content = Absent THEN 0
           ELSE IF f.content = Empty THEN 1
           ELSE IF f.content = Partial THEN 2
           ELSE f.mtime

Init ==
    /\ fs \in {f \in [Paths -> InitFiles] :
                 /\ \A e \in Entries : f[<<e, "new">>] = AbsentFile
                 /\ Kind(f[LocalPath("asn")]) <= Kind(f[LocalPath("city")])
                 /\ Kind(f[LocalPath("city")]) <= Kind(f[LocalPath("country")])}
    /\ Fields
    /\ BootIdle /\ HttpIdle /\ DlIdle

\* ------------------------------------------------------ initDatabases ---
\* (bug variant: the error is logged and the range loop goes on)
ReturnErrSkip == "visit"

\* return fmt.Errorf(...): initDatabases ends, main calls log.Fatalf
ReturnErr == "fatal"

\* (bug variant: the os.Stat test dropped, every start downloads)
NeedsDownloadAlways(e) == TRUE

\* _, err := os.Stat(db.localPath); os.IsNotExist(err)
NeedsDownload(e) == fs[LocalPath(e)].content = Absent

\* for name, db := range databases; os.Stat(db.localPath)
InitVisit(e) ==
    /\ ipc = "visit" /\ e \in ipending
    /\ icur' = e
    /\ ipending' = ipending \ {e}
    /\ ipc' = IF NeedsDownload(e) THEN "dl_create" ELSE "open"
    /\ UNCHANGED <<frontVars, dbVars, lockVars, now, faults, tickAt, updVars,
                   reqVars>>

\* downloadDatabase(db.url, db.localPath): os.Create
InitDlCreate ==
    /\ ipc = "dl_create"
    /\ \/ Fault /\ ipc' = ReturnErr /\ fs' = fs
       \/ NoFault /\ ipc' = "dl_get" /\ fs' = FsCreate(LocalPath(icur))
    /\ UNCHANGED <<frontVars, reader, lastUpdate, handles, lockVars, now,
                   tickAt,
                   ipending, icur, updVars, reqVars>>

\* downloadDatabase: http.Get and the status check
InitDlGet ==
    /\ ipc = "dl_get"
    /\ \/ Fault /\ ipc' = ReturnErr
       \/ NoFault /\ ipc' = "dl_copy"
    /\ UNCHANGED <<frontVars, dbVars, lockVars, now, tickAt, ipending, icur,
                   updVars,
                   reqVars>>

\* downloadDatabase: io.Copy; on success db.lastUpdate = time.Now()
InitDlCopy ==
    /\ ipc = "dl_copy"
    /\ \/ /\ Fault
          /\ ipc' = ReturnErr
          /\ fs' = FsCopyFail(LocalPath(icur))
          /\ lastUpdate' = lastUpdate
       \/ /\ NoFault
          /\ ipc' = "open"
          /\ \E v \in Versions : fs' = FsCopyOk(LocalPath(icur), v)
          /\ lastUpdate' = [lastUpdate EXCEPT ![icur] = now]
    /\ UNCHANGED <<frontVars, reader, handles, lockVars, now, tickAt,
                   ipending, icur,
                   updVars, reqVars>>

\* (bug variant: the field is cleared instead of kept)
InitLastUpdateCleared(e, statOk) == Zero

\* db.lastUpdate after a successful open: kept when already set, else the
\* file's ModTime, else (os.Stat failed) time.Now()
InitLastUpdate(e, statOk) ==
    IF lastUpdate[e] # Zero THEN lastUpdate[e]
    ELSE IF statOk THEN fs[LocalPath(e)].mtime ELSE now

\* geoipOpen(db.localPath); db.reader = reader; lastUpdate from ModTime
InitOpen ==
    /\ ipc = "open"
    /\ \/ /\ IF Openable(fs[LocalPath(icur)]) THEN Fault ELSE NoFault
          /\ ipc' = ReturnErr
          /\ UNCHANGED <<reader, handles, lastUpdate>>
       \/ /\ Openable(fs[LocalPath(icur)])
          /\ ipc' = "visit"
          /\ handles' = [handles EXCEPT
                           ![icur] = Append(@, NewHandle(fs[LocalPath(icur)]))]
          /\ reader' = [reader EXCEPT ![icur] = Len(handles'[icur])]
          /\ \/ /\ NoFault
                /\ lastUpdate' = [lastUpdate EXCEPT
                                    ![icur] = InitLastUpdate(icur, TRUE)]
             \/ /\ lastUpdate[icur] = Zero
                /\ Fault
                /\ lastUpdate' = [lastUpdate EXCEPT
                                    ![icur] = InitLastUpdate(icur, FALSE)]
    /\ UNCHANGED <<frontVars, fs, lockVars, now, tickAt, ipending, icur,
                   updVars,
                   reqVars>>

\* (bug variant: the ticker delivers as soon as it is made)
FirstTickAtOnce == now

\* time.NewTicker(24 * time.Hour): the first tick comes one period later
FirstTick == now + TickDays

\* return nil; main starts the updater goroutine and the HTTP server
InitReturn ==
    /\ ipc = "visit" /\ ipending = {}
    /\ ipc' = "done"
    /\ upc' = "wait"
    /\ tickAt' = FirstTick
    /\ rpc' = [w \in Workers |-> "idle"]
    /\ UNCHANGED <<frontVars, dbVars, lockVars, now, faults, ipending, icur,
                   upending,
                   ucur, outcome, ageAt, dlCalls, cycleStart, snap, closeErr,
                   swapFailed, stage, res>>

\* ------------------------------------------------------------- clock ----
\* time passes while the updater sleeps on the ticker (until the tick is
\* due: a waiting updater receives it at once) or waits for the network;
\* no other step of the model reads the clock in between
AdvanceTime ==
    /\ \/ upc = "wait" /\ now < tickAt
       \/ upc = "dl_get"
    /\ now < MaxDay
    /\ now' = now + 1
    /\ UNCHANGED <<frontVars, dbVars, lockVars, faults, tickAt, initVars,
                   updVars,
                   reqVars>>

\* --------------------------- startDatabaseUpdater / updateDatabasesIfNeeded
\* (bug variant: the download goes straight to db.localPath)
TempPathSame(e) == LocalPath(e)

TempPath(e) == <<e, "new">>       \* db.localPath + ".new"

\* (bug variants: `>` for `>=`; the age test dropped)
IsStaleStrict(e) == now - lastUpdate[e] > StaleDays
IsStaleAlways(e) == TRUE

\* time.Since(db.lastUpdate) >= 30*24*time.Hour
IsStale(e) == now - lastUpdate[e] >= StaleDays

\* (bug variant: `return` for `continue`)
Break(rest) == {}

\* `continue`: the range loop goes on with the entries not yet visited
Continue(rest) == rest

\* (bug variant: the result of geoip2.Open is assigned without the err test)
ReaderAfterReopenAssign(e, opened, h) == h

\* db.reader after the best-effort geoip2.Open that follows a failed rename
ReaderAfterReopen(e, opened, h) == IF opened THEN h ELSE reader[e]

\* (bug variant: the reopen branch stamps the entry like a refresh)
LastUpdateAfterReopenStamped(e, opened) == IF opened THEN now ELSE lastUpdate[e]

\* db.lastUpdate after the rename-failure branch: not assigned there
LastUpdateAfterReopen(e, opened) == lastUpdate[e]

\* (bug variant: a failure branch continues without Unlock)
UnlockSkipped(e) == wlock

\* db.mutex.Unlock()
Unlock(e) == [wlock EXCEPT ![e] = "free"]

\* (bug variant: every tick starts a cycle of its own,
\* `go updateDatabasesIfNeeded()`)
AtSelectAnytime == upc # "off"

\* the updater goroutine is blocked in `select`, its only receive from
\* ticker.C: updateDatabasesIfNeeded has returned
AtSelect == upc = "wait"

\* case <-ticker.C: updateDatabasesIfNeeded()
Tick ==
    /\ AtSelect
    /\ now >= tickAt
    /\ tickAt' = now + TickDays
    /\ upc' = "next"
    /\ upending' = Entries
    /\ cycleStart' = now
    /\ UNCHANGED <<frontVars, dbVars, lockVars, now, faults, initVars, ucur,
                   outcome,
                   ageAt, dlCalls, snap, closeErr, swapFailed, reqVars>>

\* for name, db := range databases { if time.Since(db.lastUpdate) >= ...
UpdVisit(e) ==
    /\ upc = "next" /\ e \in upending
    /\ ucur' = e
    /\ upending' = upending \ {e}
    /\ ageAt' = [ageAt EXCEPT ![e] = now - lastUpdate[e]]
    /\ snap' = [reader |-> reader[e], handles |-> handles[e],
                lastUpdate |-> lastUpdate[e], file |-> fs[LocalPath(e)]]
    /\ closeErr' = "none"
    /\ IF IsStale(e)
         THEN upc' = "dl_create" /\ outcome' = outcome
         ELSE upc' = "next" /\ outcome' = [outcome EXCEPT ![e] = "fresh"]
    /\ UNCHANGED <<frontVars, dbVars, lockVars, now, faults, tickAt,
                   initVars, dlCalls,
                   cycleStart, swapFailed, reqVars>>

\* the visit of ucur ends with a logged download failure and `continue`
DownloadFailed ==
    /\ Fault
    /\ outcome' = [outcome EXCEPT ![ucur] = "dlfail"]
    /\ upending' = Continue(upending)
    /\ upc' = "next"

\* downloadDatabase(db.url, tempPath): os.Create
UpdDlCreate ==
    /\ upc = "dl_create"
    /\ dlCalls' = [dlCalls EXCEPT ![ucur] = @ + 1]
    /\ \/ DownloadFailed /\ fs' = fs
       \/ /\ NoFault
          /\ fs' = FsCreate(TempPath(ucur))
          /\ upc' = "dl_get"
          /\ UNCHANGED <<outcome, upending>>
    /\ UNCHANGED <<frontVars, reader, lastUpdate, handles, lockVars, now,
                   tickAt,
                   initVars, ucur, ageAt, cycleStart, snap, closeErr, swapFailed,
                   reqVars>>

\* downloadDatabase: http.Get and the status check
UpdDlGet ==
    /\ upc = "dl_get"
    /\ \/ DownloadFailed
       \/ NoFault /\ upc' = "dl_copy" /\ UNCHANGED <<outcome, upending>>
    /\ UNCHANGED <<frontVars, dbVars, lockVars, now, tickAt, initVars, ucur,
                   ageAt,
                   dlCalls, cycleStart, snap, closeErr, swapFailed, reqVars>>

\* downloadDatabase: io.Copy
UpdDlCopy ==
    /\ upc = "dl_copy"
    /\ \/ DownloadFailed /\ fs' = FsCopyFail(TempPath(ucur))
       \/ /\ NoFault
          /\ \E v \in Versions : fs' = FsCopyOk(TempPath(ucur), v)
          /\ upc' = "lock"
          /\ UNCHANGED <<outcome, upending>>
    /\ UNCHANGED <<frontVars, reader, lastUpdate, handles, lockVars, now,
                   tickAt,
                   initVars, ucur, ageAt, dlCalls, cycleStart, snap, closeErr,
                   swapFailed, reqVars>>

\* db.mutex.Lock(): the writer announces itself, new RLocks now block
UpdLockRequest ==
    /\ upc = "lock"
    /\ wlock[ucur] = "free"
    /\ wlock' = [wlock EXCEPT ![ucur] = "pending"]
    /\ upc' = "lock_wait"
    /\ UNCHANGED <<frontVars, dbVars, readers, now, faults, tickAt, initVars,
                   upending,
                   ucur, outcome, ageAt, dlCalls, cycleStart, snap, closeErr,
                   swapFailed, reqVars>>

\* db.mutex.Lock() returns once the active readers have left
UpdLockAcquire ==
    /\ upc = "lock_wait"
    /\ readers[ucur] = {}
    /\ wlock' = [wlock EXCEPT ![ucur] = "held"]
    /\ upc' = "close"
    /\ UNCHANGED <<frontVars, dbVars, readers, now, faults, tickAt, initVars,
                   upending,
                   ucur, outcome, ageAt, dlCalls, cycleStart, snap, closeErr,
                   swapFailed, reqVars>>

\* (bug variant: an error of Close ends the visit)
AfterCloseAbort(err) == IF err THEN "next" ELSE "rename"

\* the statement after db.reader.Close(): its result is not looked at
AfterClose(err) == "rename"

\* if db.reader != nil { db.reader.Close() }; Close may return an error
UpdClose ==
    /\ upc = "close"
    /\ IF reader[ucur] = Nil
         THEN /\ NoFault
              /\ UNCHANGED <<handles, closeErr>>
              /\ upc' = "rename"
         ELSE /\ handles' = CloseReader(ucur)
              /\ \/ NoFault /\ closeErr' = "nil" /\ upc' = AfterClose(FALSE)
                 \/ Fault /\ closeErr' = "err" /\ upc' = AfterClose(TRUE)
    /\ UNCHANGED <<frontVars, fs, reader, lastUpdate, lockVars, now, tickAt,
                   initVars, upending, ucur, outcome, ageAt, dlCalls,
                   cycleStart, snap, swapFailed, reqVars>>

\* os.Rename(tempPath, db.localPath)
UpdRename ==
    /\ upc = "rename"
    /\ \/ /\ Fault
          /\ upc' = "reopen"
          /\ swapFailed' = swapFailed \cup {ucur}
          /\ fs' = fs
       \/ /\ NoFault
          /\ upc' = "open"
          /\ fs' = FsRename(TempPath(ucur), LocalPath(ucur))
          /\ swapFailed' = swapFailed
    /\ UNCHANGED <<frontVars, reader, lastUpdate, handles, lockVars, now,
                   tickAt,
                   initVars, upending, ucur, outcome, ageAt, dlCalls,
                   cycleStart, snap, closeErr, reqVars>>

\* rename failed: geoip2.Open(db.localPath), db.mutex.Unlock(), continue
UpdReopen ==
    /\ upc = "reopen"
    /\ \/ /\ IF Openable(fs[LocalPath(ucur)]) THEN Fault ELSE NoFault
          /\ handles' = handles
          /\ reader' = [reader EXCEPT ![ucur] =
                          ReaderAfterReopen(ucur, FALSE, Nil)]
          /\ lastUpdate' = [lastUpdate EXCEPT ![ucur] =
                              LastUpdateAfterReopen(ucur, FALSE)]
       \/ /\ Openable(fs[LocalPath(ucur)])
          /\ NoFault
          /\ handles' = [handles EXCEPT ![ucur] =
                           Append(@, NewHandle(fs[LocalPath(ucur)]))]
          /\ reader' = [reader EXCEPT ![ucur] =
                          ReaderAfterReopen(ucur, TRUE, Len(handles'[ucur]))]
          /\ lastUpdate' = [lastUpdate EXCEPT ![ucur] =
                              LastUpdateAfterReopen(ucur, TRUE)]
    /\ wlock' = Unlock(ucur)
    /\ outcome' = [outcome EXCEPT ![ucur] = "renamefail"]
    /\ upending' = Continue(upending)
    /\ upc' = "next"
    /\ UNCHANGED <<frontVars, fs, readers, now, tickAt, initVars, ucur,
                   ageAt, dlCalls, cycleStart, snap, closeErr, swapFailed, reqVars>>

\* rename succeeded: geoipOpen(db.localPath), then either log and continue
\* or db.reader = reader; db.lastUpdate = time.Now(); in both cases Unlock
UpdOpen ==
    /\ upc = "open"
    /\ \/ /\ IF Openable(fs[LocalPath(ucur)]) THEN Fault ELSE NoFault
          /\ outcome' = [outcome EXCEPT ![ucur] = "openfail"]
          /\ swapFailed' = swapFailed \cup {ucur}
          /\ upending' = Continue(upending)
          /\ UNCHANGED <<reader, handles, lastUpdate>>
       \/ /\ Openable(fs[LocalPath(ucur)])
          /\ NoFault
          /\ handles' = [handles EXCEPT ![ucur] =
                           Append(@, NewHandle(fs[LocalPath(ucur)]))]
          /\ reader' = [reader EXCEPT ![ucur] = Len(handles'[ucur])]
          /\ lastUpdate' = [lastUpdate EXCEPT ![ucur] = now]
          /\ outcome' = [outcome EXCEPT ![ucur] = "ok"]
          /\ UNCHANGED <<swapFailed, upending>>
    /\ wlock' = Unlock(ucur)
    /\ upc' = "next"
    /\ UNCHANGED <<frontVars, fs, readers, now, tickAt, initVars, ucur,
                   ageAt, dlCalls,
                   cycleStart, snap, closeErr, reqVars>>

\* the range loop is exhausted: updateDatabasesIfNeeded returns and the
\* updater blocks on the ticker again (the cycle's bookkeeping is dropped)
UpdCycleEnd ==
    /\ upc = "next" /\ upending = {}
    /\ upc' = "wait"
    /\ ucur' = NoEntry
    /\ outcome' = [e \in Entries |-> "none"]
    /\ ageAt' = [e \in Entries |-> NotSeen]
    /\ dlCalls' = [e \in Entries |-> 0]
    /\ cycleStart' = Zero
    /\ snap' = NoSnap
    /\ closeErr' = "none"
    /\ UNCHANGED <<frontVars, dbVars, lockVars, now, faults, tickAt,
                   initVars, upending,
                   swapFailed, reqVars>>

\* ---------------------------------------------------------- getIPInfo ---
\* the three guarded lookups, in program order
NextStage(e) == IF e = "asn" THEN "city" ELSE "country"

\* (bug variant: the lookup does not take the entry's lock)
CanRLockAlways(e) == TRUE

\* RLock is granted unless a writer holds or awaits the lock
CanRLock(e) == wlock[e] = "free"

\* a lookup method of the reader: an error on a closed database
LookupOk(e) == handles[e][reader[e]].closes = 0

\* (bug variant: the shared lock is kept after the call)
RUnlockSkipped(e, w) == readers

\* databases[e].mutex.RUnlock() by the handler w
RUnlock(e, w) == [readers EXCEPT ![e] = @ \ {w}]

\* handleIPLookup calls getIPInfo(ip)
ReqStart(w) ==
    /\ rpc[w] = "idle"
    /\ rpc' = [rpc EXCEPT ![w] = "rlock"]
    /\ stage' = [stage EXCEPT ![w] = "asn"]
    /\ res' = [res EXCEPT ![w] = "none"]
    /\ UNCHANGED <<frontVars, dbVars, lockVars, now, faults, tickAt,
                   initVars, updVars>>

\* databases[stage].mutex.RLock()
ReqRLock(w) ==
    /\ rpc[w] = "rlock"
    /\ CanRLock(stage[w])
    /\ readers' = [readers EXCEPT ![stage[w]] = @ \cup {w}]
    /\ rpc' = [rpc EXCEPT ![w] = "call"]
    /\ UNCHANGED <<frontVars, dbVars, wlock, now, faults, tickAt, initVars,
                   updVars,
                   stage, res>>

\* databases[stage].reader.X(ip); RUnlock(); if err != nil { return }
\* a nil reader panics before RUnlock is reached
ReqLookup(w) ==
    /\ rpc[w] = "call"
    /\ LET e == stage[w] IN
       IF reader[e] = Nil
         THEN /\ rpc' = [rpc EXCEPT ![w] = "dead"]
              /\ res' = [res EXCEPT ![w] = "panic"]
              /\ UNCHANGED <<readers, stage>>
         ELSE /\ readers' = RUnlock(e, w)
              /\ IF ~LookupOk(e)
                   THEN /\ rpc' = [rpc EXCEPT ![w] = "idle"]
                        /\ res' = [res EXCEPT ![w] = "err"]
                        /\ stage' = stage
                   ELSE IF e = "country"
                   THEN /\ rpc' = [rpc EXCEPT ![w] = "idle"]
                        /\ res' = [res EXCEPT ![w] = "ok"]
                        /\ stage' = stage
                   ELSE /\ rpc' = [rpc EXCEPT ![w] = "rlock"]
                        /\ stage' = [stage EXCEPT ![w] = NextStage(e)]
                        /\ res' = res
    /\ UNCHANGED <<frontVars, dbVars, wlock, now, faults, tickAt, initVars,
                   updVars>>

\* ------------------------------------------------------------ strings ---
\* A string is a sequence of tokens.  A token is a separator character
\* ("/", ":", ",", " ") or a run of other characters the code never looks
\* into: "ipgeo", "geo", "evil", "80", "ip" (the text of an IP address) and
\* "x" (text that is neither).
\* strings.Index: position of the first sep in s, 0 when there is none
RECURSIVE IndexFrom(_, _, _)
IndexFrom(s, sep, i) ==
    IF i > Len(s) THEN 0
    ELSE IF s[i] = sep THEN i
    ELSE IndexFrom(s, sep, i + 1)

\* number of tokens sep in s
RECURSIVE CountOf(_, _)
CountOf(s, sep) ==
    IF s = <<>> THEN 0
    ELSE (IF Head(s) = sep THEN 1 ELSE 0) + CountOf(Tail(s), sep)

\* strings.Split(s, sep): the pieces between the separators, empty ones kept
RECURSIVE Split(_, _)
Split(s, sep) ==
    LET i == IndexFrom(s, sep, 1) IN
    IF i = 0 THEN <<s>>
    ELSE <<SubSeq(s, 1, i - 1)>> \o Split(SubSeq(s, i + 1, Len(s)), sep)

\* strings.HasPrefix(s, p)
HasPrefix(s, p) == Len(s) >= Len(p) /\ SubSeq(s, 1, Len(p)) = p

\* strings.TrimSpace(s)
RECURSIVE TrimSpace(_)
TrimSpace(s) ==
    IF s = <<>> THEN s
    ELSE IF Head(s) = " " THEN TrimSpace(Tail(s))
    ELSE IF s[Len(s)] = " " THEN TrimSpace(SubSeq(s, 1, Len(s) - 1))
    ELSE s

\* net.SplitHostPort(s) for addresses without brackets: an error unless s
\* holds exactly one colon ("missing port", "too many colons")
SplitHostPort(s) ==
    LET i == IndexFrom(s, ":", 1) IN
    IF CountOf(s, ":") = 1
      THEN [ok |-> TRUE, host |-> SubSeq(s, 1, i - 1),
            port |-> SubSeq(s, i + 1, Len(s))]
      ELSE [ok |-> FALSE, host |-> <<>>, port |-> <<>>]

\* net.ParseIP(s) != nil
ParseIP(s) == s = <<"ip">>

\* ------------------------------------------------------ configuration ---
Hosts   == {<<>>, <<"geo">>}
Configs == {Conf(h, s, c, k) : h \in Hosts, s \in BOOLEAN,
                               c \in {"", "cert.pem"}, k \in {"", "key.pem"}}

\* (bug variant: only the SSL-disabled rule is checked)
validateSSLConfigHalf(c) ==
    IF ~c.SSL /\ (c.Cert # "" \/ c.Key # "")
      THEN "SSL is disabled but certificate or key path is provided"
      ELSE NoErr

\* validateSSLConfig() on the configuration c
validateSSLConfig(c) ==
    IF ~c.SSL /\ (c.Cert # "" \/ c.Key # "")
      THEN "SSL is disabled but certificate or key path is provided"
    ELSE IF c.SSL /\ (\/ (c.Cert # "" /\ c.Key = "")
                      \/ (c.Cert = "" /\ c.Key # ""))
      THEN "both certificate and key must be provided"
    ELSE NoErr

CfgDisks ==
    {Disk(d, f) : d \in {"cwd", "present"},
                  f \in {AbsentCfg, GarbageCfg} \cup {JsonCfg(c) : c \in Configs}}
      \cup {Disk("missing", AbsentCfg)}

\* (bug variant: the default file is written whether or not one exists)
ensureConfigFileExistsOverwrite(d, mkdirOk, statOk, writeRes) ==
    [disk |-> [d EXCEPT !.file = JsonCfg(defaultConfig)], err |-> NoErr]

\* ensureConfigFileExists(path) on the disk d; mkdirOk, statOk and writeRes
\* say how os.MkdirAll, os.Stat and os.WriteFile fare
ensureConfigFileExists(d, mkdirOk, statOk, writeRes) ==
    IF d.dir # "cwd" /\ ~mkdirOk
      THEN [disk |-> d, err |-> "failed to create config directory"]
    ELSE LET d1 == [d EXCEPT !.dir = IF @ = "missing" THEN "made" ELSE @]
         IN
      IF d1.file.kind = "absent" /\ statOk
        THEN IF writeRes = "ok"
               THEN [disk |-> [d1 EXCEPT !.file = JsonCfg(defaultConfig)],
                     err |-> NoErr]
               ELSE [disk |-> [d1 EXCEPT !.file =
                                 IF writeRes = "partial" THEN GarbageCfg
                                 ELSE @],
                     err |-> "failed to write default configuration file"]
      ELSE IF ~statOk
        THEN [disk |-> d1, err |-> "failed to check if config file exists"]
      ELSE [disk |-> d1, err |-> NoErr]

\* loadConfig(path): os.Open, io.ReadAll, json.Unmarshal into config
loadConfig(d, readOk) ==
    IF d.file.kind = "absent" \/ ~readOk
      THEN [conf |-> defaultConfig, err |-> "open/read error"]
    ELSE IF d.file.kind = "garbage"
      THEN [conf |-> defaultConfig, err |-> "unmarshal error"]
    ELSE [conf |-> d.file.conf, err |-> NoErr]

\* main: ensureConfigFileExists(configPath); an error is only logged
EnsureConfigFileExists ==
    /\ bpc = "ensure"
    /\ \E mkdirOk, statOk \in BOOLEAN, writeRes \in {"ok", "nofile", "partial"} :
         LET r == ensureConfigFileExists(cfgDisk, mkdirOk, statOk, writeRes)
         IN  cfgDisk' = r.disk /\ bootErr' = r.err
    /\ bpc' = "load"
    /\ UNCHANGED <<config, httpVars, dlVars, dbVars, lockVars, now, faults,
                   tickAt, initVars, updVars, reqVars>>

\* main: loadConfig(configPath); on an error config = defaultConfig
LoadConfig ==
    /\ bpc = "load"
    /\ \E readOk \in BOOLEAN :
         LET r == loadConfig(cfgDisk, readOk)
         IN  config' = r.conf /\ bootErr' = r.err
    /\ bpc' = "validate"
    /\ UNCHANGED <<cfgDisk, httpVars, dlVars, dbVars, lockVars, now, faults,
                   tickAt, initVars, updVars, reqVars>>

\* main: validateSSLConfig(); an error ends the process (log.Fatalf)
ValidateSSL ==
    /\ bpc = "validate"
    /\ bootErr' = validateSSLConfig(config)
    /\ bpc' = IF bootErr' # NoErr THEN "fatal" ELSE "run"
    /\ UNCHANGED <<cfgDisk, config, httpVars, dlVars, dbVars, lockVars, now,
                   faults, tickAt, initVars, updVars, reqVars>>

\* ----------------------------------------------------- request handling -
\* the order of the guarded lookups in getIPInfo
Lookups == <<"asn", "city", "country">>

\* (bug variant: the message does not say which lookup failed)
LookupErrPlain(e) == "lookup error"

\* fmt.Errorf("ASN lookup error: ..."), "city ...", "country ..."
LookupErr(e) ==
    IF e = "asn" THEN "ASN lookup error"
    ELSE IF e = "city" THEN "city lookup error"
    ELSE "country lookup error"

\* getIPInfo from the i-th lookup on, `done` being the lookups already made
RECURSIVE getIPInfoFrom(_, _)
getIPInfoFrom(i, done) ==
    IF i > Len(Lookups)
      THEN [err |-> NoErr, calls |-> done, info |-> TRUE]
    ELSE IF ~LookupOk(Lookups[i])
      THEN [err |-> LookupErr(Lookups[i]),
            calls |-> Append(done, Lookups[i]), info |-> FALSE]
    ELSE getIPInfoFrom(i + 1, Append(done, Lookups[i]))

\* getIPInfo(ip), run without a concurrent swap
getIPInfo == getIPInfoFrom(1, <<>>)

\* (bug variant: X-Real-IP is preferred when present)
getClientIPRealIP(r) ==
    IF r.xreal # <<>> THEN r.xreal
    ELSE IF r.xff # <<>> THEN TrimSpace(Split(r.xff, ",")[1])
    ELSE r.remote

\* getClientIP(r)
getClientIP(r) ==
    IF r.xff # <<>>
      THEN TrimSpace(Split(r.xff, ",")[1])
      ELSE LET sp == SplitHostPort(r.remote)
           IN  IF sp.ok THEN sp.host ELSE r.remote

\* (bug variant: the address is looked up without being parsed)
handleIPLookupUnchecked(ipAddress) ==
    Resp(StatusOK, <<"ipInfo">>, ipAddress, getIPInfo.calls)

\* handleIPLookup(w, r, ipAddress)
handleIPLookup(ipAddress) ==
    IF ~ParseIP(ipAddress)
      THEN Resp(StatusBadRequest, <<"Invalid IP address">>, ipAddress, <<>>)
    ELSE LET r == getIPInfo IN
      IF r.err # NoErr
        THEN Resp(StatusInternalServerError,
                  <<"Error getting IP info: ", r.err>>, ipAddress, r.calls)
        ELSE Resp(StatusOK, <<"ipInfo">>, ipAddress, r.calls)

\* http.Error(w, "Forbidden", http.StatusForbidden)
Forbidden == Resp(StatusForbidden, <<"Forbidden">>, <<>>, <<>>)

\* (bug variant: the Host header is compared with its port)
RequestHostRaw(r) == r.host

\* the Host header with its port, if it has one, cut off
RequestHost(r) ==
    LET sp == SplitHostPort(r.host)
    IN  IF sp.ok THEN sp.host ELSE r.host

\* (bug variant: every path under /ipgeo/ is taken, whatever its depth)
IsIPPathDeep(path) == HasPrefix(path, <<"/", "ipgeo", "/">>)

\* strings.HasPrefix(path, "/ipgeo/") with len(parts) == 3 && parts[1] == "ipgeo"
IsIPPath(path) ==
    /\ HasPrefix(path, <<"/", "ipgeo", "/">>)
    /\ Len(Split(path, "/")) = 3
    /\ Split(path, "/")[2] = <<"ipgeo">>

\* handleRequest(w, r) under the configuration c
handleRequest(r, c) ==
    IF c.Host # <<>> /\ RequestHost(r) # c.Host THEN Forbidden
    ELSE IF r.path = <<"/", "ipgeo">> THEN handleIPLookup(getClientIP(r))
    ELSE IF IsIPPath(r.path) THEN handleIPLookup(Split(r.path, "/")[3])
    ELSE Forbidden

\* requests the server is sent
PathTokens == {"/", "ipgeo", "ip", "x"}
Paths4 ==
    {<<"/">>}
      \cup {<<"/", a>> : a \in PathTokens}
      \cup {<<"/", a, b>> : a, b \in PathTokens}
      \cup {<<"/", a, b, c>> : a, b, c \in PathTokens}
ReqPaths ==
    Paths4 \cup {<<"/", "ipgeo", "/", "ip", "/">>,
                 <<"/", "ipgeo", "/", "ip", "/", "x">>,
                 <<"/", "ipgeo", "/", "ip", "x">>}
ReqHosts   == {<<"geo">>, <<"geo", ":", "80">>, <<"evil">>,
               <<"evil", ":", "80">>}
ReqXFFs    == {<<>>, <<"ip">>, <<" ", "ip", " ", ",", "x">>, <<"x", ",", "ip">>}
ReqXReals  == {<<>>, <<"ip">>}
ReqRemotes == {<<"ip", ":", "80">>, <<"x">>}
Requests ==
    {Request(h, p, f, x, a) : h \in ReqHosts, p \in ReqPaths, f \in ReqXFFs,
                              x \in ReqXReals, a \in ReqRemotes}

\* the server calls handleRequest for a request; no swap runs meanwhile
HandleRequest ==
    /\ bpc = "run" /\ ipc = "done"
    /\ httpReq = NoRequest
    /\ \E r \in Requests :
         /\ httpReq' = r
         /\ httpResp' = handleRequest(r, config)
    /\ UNCHANGED <<bootVars, dlVars, dbVars, lockVars, now, faults, tickAt,
                   initVars, updVars, reqVars>>

\* the response has been written and the handler has returned
FinishRequest ==
    /\ httpReq # NoRequest
    /\ httpReq' = NoRequest
    /\ httpResp' = NoResponse
    /\ UNCHANGED <<bootVars, dlVars, dbVars, lockVars, now, faults, tickAt,
                   initVars, updVars, reqVars>>

\* ----------------------------------------------------- downloadDatabase -
Statuses == {200, 206, 404, 500}

DlEnvs ==
    {DlEnv(p, c, g, s, k, b) :
        p \in {LocalPath("asn"), TempPath("asn")}, c \in BOOLEAN,
        g \in BOOLEAN, s \in Statuses, k \in BOOLEAN, b \in Versions}

\* (bug variant: every 2xx status is taken for success)
downloadDatabase2xx(env) ==
    IF ~env.createOk THEN [fs |-> fs, err |-> "create error"]
    ELSE IF ~env.getOk THEN [fs |-> FsCreate(env.dest), err |-> "get error"]
    ELSE IF env.status \div 100 # 2
      THEN [fs |-> FsCreate(env.dest), err |-> "bad status"]
    ELSE IF ~env.copyOk
      THEN [fs |-> FsCopyFail(env.dest), err |-> "copy error"]
    ELSE [fs |-> FsCopyOk(env.dest, env.body), err |-> NoErr]

\* downloadDatabase(url, localPath) as one call
downloadDatabase(env) ==
    IF ~env.createOk THEN [fs |-> fs, err |-> "create error"]
    ELSE IF ~env.getOk THEN [fs |-> FsCreate(env.dest), err |-> "get error"]
    ELSE IF env.status # StatusOK
      THEN [fs |-> FsCreate(env.dest), err |-> "bad status"]
    ELSE IF ~env.copyOk
      THEN [fs |-> FsCopyFail(env.dest), err |-> "copy error"]
    ELSE [fs |-> FsCopyOk(env.dest, env.body), err |-> NoErr]

\* a caller runs downloadDatabase to its return
Download ==
    /\ dlErr = "pending"
    /\ fs' = downloadDatabase(dlEnv).fs
    /\ dlErr' = downloadDatabase(dlEnv).err
    /\ UNCHANGED <<bootVars, httpVars, dlEnv, reader, lastUpdate, handles,
                   lockVars, now, faults, tickAt, initVars, updVars, reqVars>>

\* ----------------------------------------------------- specifications ---
\* the service without incoming requests: start-up and the updater
Next ==
    \/ \E e \in Entries : InitVisit(e)
    \/ InitDlCreate \/ InitDlGet \/ InitDlCopy \/ InitOpen \/ InitReturn
    \/ AdvanceTime
    \/ Tick
    \/ \E e \in Entries : UpdVisit(e)
    \/ UpdDlCreate \/ UpdDlGet \/ UpdDlCopy
    \/ UpdLockRequest \/ UpdLockAcquire \/ UpdClose \/ UpdRename
    \/ UpdReopen \/ UpdOpen \/ UpdCycleEnd

Spec == Init /\ [][Next]_vars

\* the service under load: the same, with the request handlers running.
\* The run starts from one installation: no ASN file yet, a City file that
\* is due at the first tick and a Country file written the day before.
ServeFs ==
    [p \in Paths |->
        IF p = LocalPath("city") THEN File(Full, 0, Day0 - StaleDays + 1)
        ELSE IF p = LocalPath("country") THEN File(Full, 0, Day0 - 1)
        ELSE AbsentFile]

InitServe == fs = ServeFs /\ Fields /\ BootIdle /\ HttpIdle /\ DlIdle

NextServe ==
    \/ Next
    \/ \E w \in Workers : ReqStart(w) \/ ReqRLock(w) \/ ReqLookup(w)

SpecServe == InitServe /\ [][NextServe]_vars

\* start-up up to the SSL check, from any configuration file
InitBoot ==
    /\ cfgDisk \in CfgDisks
    /\ config = Conf(<<>>, FALSE, "", "")
    /\ bpc = "ensure"
    /\ bootErr = NoErr
    /\ HttpIdle /\ DlIdle
    /\ fs = [p \in Paths |-> AbsentFile]
    /\ Fields

NextBoot == EnsureConfigFileExists \/ LoadConfig \/ ValidateSSL

SpecBoot == InitBoot /\ [][NextBoot]_vars

\* the running service between two refresh cycles, answering requests: any
\* accepted configuration; every entry has its reader installed, open or,
\* after a failed swap, closed
InitHttp ==
    /\ config \in {c \in Configs : validateSSLConfig(c) = NoErr}
    /\ cfgDisk = Disk("cwd", JsonCfg(config))
    /\ bpc = "run" /\ bootErr = NoErr
    /\ HttpIdle /\ DlIdle
    /\ fs = [p \in Paths |-> IF p[2] = "db" THEN File(Full, 0, Day0 - 1)
                                           ELSE AbsentFile]
    /\ handles \in [Entries -> {<<[src |-> 0, closes |-> c]>> : c \in {0, 1}}]
    /\ reader = [e \in Entries |-> 1]
    /\ lastUpdate = [e \in Entries |-> Day0 - 1]
    /\ wlock = [e \in Entries |-> "free"]
    /\ readers = [e \in Entries |-> {}]
    /\ now = Day0 /\ faults = 0 /\ tickAt = Day0 + TickDays
    /\ ipc = "done" /\ ipending = {} /\ icur = NoEntry
    /\ upc = "wait" /\ upending = {} /\ ucur = NoEntry
    /\ outcome = [e \in Entries |-> "none"]
    /\ ageAt = [e \in Entries |-> NotSeen]
    /\ dlCalls = [e \in Entries |-> 0]
    /\ cycleStart = Zero /\ snap = NoSnap /\ swapFailed = {}
    /\ closeErr = "none"
    /\ rpc = [w \in Workers |-> "idle"]
    /\ stage = [w \in Workers |-> NoEntry]
    /\ res = [w \in Workers |-> "none"]

NextHttp == HandleRequest \/ FinishRequest

SpecHttp == InitHttp /\ [][NextHttp]_vars

\* one downloadDatabase call, whatever it meets
InitDownload ==
    /\ dlEnv \in DlEnvs
    /\ dlErr = "pending"
    /\ \E f \in {AbsentFile, File(Full, 0, Day0 - 1), File(Partial, 0, Day0 - 1)} :
         fs = [p \in Paths |-> IF p = dlEnv.dest THEN f ELSE AbsentFile]
    /\ BootIdle /\ HttpIdle
    /\ Fields

NextDownload == Download

SpecDownload == InitDownload /\ [][NextDownload]_vars

\* the updater under fair scheduling.  The run starts from an installation
\* with an ASN file that is already 30 days old, a City file that is due at
\* the first tick and no Country file.
OldFs ==
    [p \in Paths |->
        IF p = LocalPath("asn") THEN File(Full, 0, Day0 - StaleDays)
        ELSE IF p = LocalPath("city") THEN File(Full, 0, Day0 - StaleDays + 1)
        ELSE AbsentFile]

InitOld == fs = OldFs /\ Fields /\ BootIdle /\ HttpIdle /\ DlIdle

\* the steps of the updater goroutine
Updater ==
    \/ Tick
    \/ \E e \in Entries : UpdVisit(e)
    \/ UpdDlCreate \/ UpdDlGet \/ UpdDlCopy
    \/ UpdLockRequest \/ UpdLockAcquire \/ UpdClose \/ UpdRename
    \/ UpdReopen \/ UpdOpen \/ UpdCycleEnd

\* time passes and the ticker delivers; the goroutine, alone on its locks,
\* is scheduled whenever it can take a step
SpecFair ==
    InitOld /\ [][Next]_vars /\ WF_vars(AdvanceTime) /\ WF_vars(Updater)

\* log.Fatalf has ended the process; it is started again on the same disk
\* (the fault budget is not renewed)
Restart ==
    /\ ipc = "fatal"
    /\ reader' = [e \in Entries |-> Nil]
    /\ lastUpdate' = [e \in Entries |-> Zero]
    /\ handles' = [e \in Entries |-> <<>>]
    /\ ipc' = "visit" /\ ipending' = Entries /\ icur' = NoEntry
    /\ UNCHANGED <<frontVars, fs, lockVars, now, faults, tickAt, updVars,
                   reqVars>>

\* cold start, and start again after every failed start
InitCold ==
    /\ fs = [p \in Paths |-> AbsentFile]
    /\ Fields /\ BootIdle /\ HttpIdle /\ DlIdle

NextRestart ==
    \/ \E e \in Entries : InitVisit(e)
    \/ InitDlCreate \/ InitDlGet \/ InitDlCopy \/ InitOpen \/ InitReturn
    \/ Restart

SpecRestart == InitCold /\ [][NextRestart]_vars

\* ============================================================== claims ==
DlPcs    == {"dl_create", "dl_get", "dl_copy"}
SwapPcs  == {"close", "rename", "reopen", "open"}
Failures == {"dlfail", "renamefail", "openfail"}

\* the range loop of the running cycle has visited every entry
LoopDone == upc = "next" /\ upending = {}

\* handler w is inside the RLock/RUnlock section of entry e
InLookup(w, e) == rpc[w] = "call" /\ stage[w] = e

\* the updater is between Lock and Unlock of entry e
InSwap(e) == ucur = e /\ upc \in SwapPcs

\* entry e is as it was when the running cycle reached it
AsVisited(e) ==
    /\ reader[e] = snap.reader
    /\ handles[e] = snap.handles
    /\ lastUpdate[e] = snap.lastUpdate
    /\ fs[LocalPath(e)] = snap.file

C2_LookupReaderOpen ==
    ipc = "done" =>
        \A w \in Workers, e \in Entries : InLookup(w, e) => ReaderOpen(e)

\* C3 (as claimed): after a visit whose rename failed the entry's reader is
\* usable, so a lookup issued right afterwards succeeds, whether or not the
\* reopen succeeded.
C3_RenameFailReaderUsable ==
    \A e \in Entries : outcome[e] = "renamefail" => ReaderOpen(e)

\* C4 (as claimed): after a visit whose open of the new file failed the
\* entry has the reader it had before, that reader is not closed, and
\* lastUpdate is as before.
C4_OpenFailKeepsWorkingReader ==
    \A e \in Entries :
        (ucur = e /\ outcome[e] = "openfail") =>
            /\ reader[e] = snap.reader
            /\ lastUpdate[e] = snap.lastUpdate
            /\ ReaderOpen(e)

\* C5 (as claimed): Close is called on the installed reader only after a
\* replacement has been opened: an installed reader on which Close was
\* called always has a handle opened after it.
C5_CloseOnlyAfterReplacementOpen ==
    \A e \in Entries :
        (reader[e] # Nil /\ handles[e][reader[e]].closes > 0) =>
            Len(handles[e]) > reader[e]

\* C6: once initDatabases has returned nil every entry's reader is non-nil,
\* whatever the refresh cycles do.
C6_ReaderNeverNil ==
    ipc = "done" => \A e \in Entries : reader[e] # Nil

\* a rename failed, the reopen failed too, and the reader is still set
C6_Witness ==
    /\ ipc = "done"
    /\ \E e \in Entries :
         outcome[e] = "renamefail" /\ reader[e] # Nil /\ ~ReaderOpen(e)

\* C7: an entry whose age is at least 30 days when the cycle visits it,
\* exactly 30 included, gets exactly one downloadDatabase call in the cycle.
C7_StaleDownloadsOnce ==
    \A e \in Entries :
        /\ dlCalls[e] <= 1
        /\ (ageAt[e] >= StaleDays /\ (ucur # e \/ upc \notin {"dl_create"}))
              => dlCalls[e] = 1

\* an entry exactly 30 days old has been visited and downloaded once
C7_Witness ==
    \E e \in Entries :
        ageAt[e] = StaleDays /\ outcome[e] # "none" /\ dlCalls[e] = 1

\* C8: an entry younger than 30 days when the cycle visits it gets no
\* download in the cycle, and no step of the cycle changes its reader, its
\* handles, its lastUpdate, its lock or its two files.
C8_FreshUntouched ==
    [][\A e \in Entries :
         (ageAt'[e] # NotSeen /\ ageAt'[e] < StaleDays) =>
            /\ dlCalls'[e] = 0
            /\ reader'[e] = reader[e]
            /\ handles'[e] = handles[e]
            /\ lastUpdate'[e] = lastUpdate[e]
            /\ wlock'[e] = wlock[e]
            /\ fs'[LocalPath(e)] = fs[LocalPath(e)]
            /\ fs'[TempPath(e)] = fs[TempPath(e)]]_vars

\* an entry 29 days old has been visited and skipped
C8_Witness ==
    \E e \in Entries :
        ageAt[e] = StaleDays - 1 /\ outcome[e] = "fresh" /\ reader[e] # Nil

\* C9: a failed visit does not end the cycle: when the loop is over and
\* some entry's visit failed, every entry has been visited, every entry
\* that was stale got its download, and every entry whose refresh went
\* through has the lastUpdate of this cycle.
C9_FailureDoesNotStopCycle ==
    (LoopDone /\ \E a \in Entries : outcome[a] \in Failures) =>
        \A b \in Entries :
            /\ outcome[b] # "none"
            /\ ageAt[b] >= StaleDays => dlCalls[b] = 1
            /\ outcome[b] = "ok" =>
                  lastUpdate[b] >= cycleStart

\* one entry's download failed and another entry was refreshed in the cycle
C9_Witness ==
    /\ LoopDone
    /\ \E a, b \in Entries :
         /\ outcome[a] = "dlfail"
         /\ outcome[b] = "ok" /\ lastUpdate[b] >= cycleStart

\* C10: while the download of a visit runs, and after it has failed, the
\* entry's reader (same handle, same Close count), lastUpdate and the file
\* at localPath are as the cycle found them, and the lock is free.
C10_DownloadFailureFrame ==
    \A e \in Entries :
        (ucur = e /\ (upc \in DlPcs \/ outcome[e] = "dlfail")) =>
            AsVisited(e) /\ wlock[e] = "free"

\* a download failed half-way through the body
C10_Witness ==
    \E e \in Entries :
        /\ ucur = e /\ outcome[e] = "dlfail"
        /\ fs[TempPath(e)].content = Partial
        /\ ReaderOpen(e)

\* C11: when the download succeeded and the rename failed, lastUpdate of the
\* entry is what it was when the cycle reached the entry, both while the
\* reopen is tried and after it, whether it succeeded or not.
C11_RenameFailKeepsLastUpdate ==
    \A e \in Entries :
        (ucur = e /\ (upc = "reopen" \/ outcome[e] = "renamefail")) =>
            lastUpdate[e] = snap.lastUpdate

\* the rename failed and the reopen of the old file installed a new handle
C11_Witness ==
    \E e \in Entries :
        /\ ucur = e /\ outcome[e] = "renamefail"
        /\ reader[e] # snap.reader /\ ReaderOpen(e)
        /\ now - lastUpdate[e] >= StaleDays

\* C12: when download, rename and open of a stale entry all succeeded, the
\* file at localPath is the completely written body downloaded in this cycle
\* (moved there from the .new path), the installed reader is a new open handle
\* opened from that file (not the previous reader), and lastUpdate is the
\* time.Now() of the installation, a time within the cycle.
C12_RefreshInstallsNew ==
    \A e \in Entries :
        (ucur = e /\ outcome[e] = "ok") =>
            LET f == fs[LocalPath(e)] IN
            /\ f.content = Full /\ f.ver \in Versions
            /\ f.mtime >= cycleStart /\ fs[TempPath(e)] = AbsentFile
            /\ reader[e] # snap.reader /\ reader[e] = Len(handles[e])
            /\ ReaderOpen(e)
            /\ handles[e][reader[e]].src = f.ver
            /\ lastUpdate[e] = now /\ lastUpdate[e] >= cycleStart

\* a stale entry was refreshed; its previous reader is closed
C12_Witness ==
    \E e \in Entries :
        /\ ucur = e /\ outcome[e] = "ok"
        /\ ageAt[e] >= StaleDays
        /\ snap.reader # Nil /\ handles[e][snap.reader].closes = 1
        /\ fs[TempPath(e)] = AbsentFile

\* the process is still on its first day: no refresh cycle has started
FirstDay == now = Day0

\* the file at localPath of e was there before the process started
PreExisting(e) ==
    fs[LocalPath(e)].content # Absent /\ fs[LocalPath(e)].mtime < Day0

\* the file at localPath of e was written by this process on its first day
WrittenAtStart(e) ==
    fs[LocalPath(e)].content # Absent /\ fs[LocalPath(e)].mtime = Day0

\* initDatabases has finished the loop body for e without returning an error
InitVisited(e) ==
    /\ e \notin ipending
    /\ ~(icur = e /\ ipc \in DlPcs \cup {"open", "fatal"})

\* no entry had a local file at start and no download has completed
AllDownloadsFailed ==
    \A e \in Entries :
        ~PreExisting(e) /\ fs[LocalPath(e)].content # Full

\* C13: with no local file for any entry and a download that fails,
\* initDatabases gets no further than its first download: once that has
\* failed it has returned the error, and every entry's reader is nil.
C13_ColdStartDownloadFails ==
    AllDownloadsFailed =>
        /\ \A e \in Entries : reader[e] = Nil
        /\ ipc \in DlPcs \cup {"visit", "fatal"}
        /\ ipc = "visit" => ipending = Entries
        /\ faults > 0 => ipc = "fatal"
        /\ upc = "off"

\* the first download broke off half-way and initDatabases returned the error
C13_Witness ==
    /\ AllDownloadsFailed
    /\ ipc = "fatal"
    /\ fs[LocalPath(icur)].content = Partial
    /\ \A e \in Entries : reader[e] = Nil

\* C14: an entry without a local file whose download and open succeeded has,
\* after initDatabases, the complete served body at localPath, an open reader
\* on it, and the time of the call as lastUpdate.
C14_ColdStartDownloads ==
    \A e \in Entries :
        (FirstDay /\ InitVisited(e) /\ WrittenAtStart(e)) =>
            LET f == fs[LocalPath(e)] IN
            /\ f.content = Full /\ f.ver \in Versions
            /\ ReaderOpen(e) /\ handles[e][reader[e]].src = f.ver
            /\ lastUpdate[e] = now

\* initDatabases returned nil after downloading at least one database
C14_Witness ==
    /\ ipc = "done" /\ FirstDay
    /\ \E e \in Entries :
         WrittenAtStart(e) /\ ReaderOpen(e) /\ lastUpdate[e] = Day0

\* C15: an entry whose local file exists at start is not downloaded; after
\* its visit by initDatabases the file is still the one found, the reader is
\* an open handle on it, and lastUpdate is the file's modification time, or
\* now when os.Stat failed, and in both cases not zero.
C15_ExistingFileOpened ==
    /\ ipc \in DlPcs => ~PreExisting(icur)
    /\ \A e \in Entries :
        (FirstDay /\ InitVisited(e) /\ PreExisting(e)) =>
            LET f == fs[LocalPath(e)] IN
            /\ f \in InitFiles /\ f.content = Full
            /\ ReaderOpen(e) /\ handles[e][reader[e]].src = f.ver
            /\ lastUpdate[e] \in {f.mtime, now}
            /\ lastUpdate[e] # Zero

\* initDatabases returned nil; one entry has its file's modification time as
\* lastUpdate, another one, whose os.Stat failed, has the time of the call
C15_Witness ==
    /\ ipc = "done" /\ FirstDay
    /\ \E e, d \in Entries :
         /\ PreExisting(e) /\ ReaderOpen(e)
         /\ lastUpdate[e] = fs[LocalPath(e)].mtime
         /\ PreExisting(d) /\ ReaderOpen(d)
         /\ lastUpdate[d] = now

\* C16: lastUpdate of an entry never decreases: every step of initDatabases
\* and of every refresh cycle leaves it as it is or sets it to a later time,
\* also when its first value was a file modification time.
C16_LastUpdateMonotonic ==
    [][\A e \in Entries : lastUpdate'[e] >= lastUpdate[e]]_vars

\* an entry that started with its file's modification time was refreshed
C16_Witness ==
    \E e \in Entries :
        /\ ucur = e /\ outcome[e] = "ok"
        /\ snap.lastUpdate \in InitMTimes
        /\ lastUpdate[e] > snap.lastUpdate

\* C17: no reader is opened from, or left installed over, a partly written
\* file: whenever a reader is installed the file at localPath is complete;
\* a handle is opened only from a complete file; once start-up is over the
\* file at localPath changes only in the rename step, to the complete file
\* at the .new path; during start-up it changes only while the entry has no
\* reader yet.
C17_NoPartialFileUnderReader ==
    [][\A e \in Entries :
         LET f == fs[LocalPath(e)]
             g == fs'[LocalPath(e)]
         IN  /\ reader'[e] # Nil => g.content = Full
             /\ Len(handles'[e]) > Len(handles[e]) =>
                    /\ f.content = Full /\ g = f
                    /\ handles'[e][Len(handles'[e])].src = f.ver
             /\ (g # f /\ upc # "off") =>
                    /\ ucur = e /\ upc = "rename"
                    /\ g = fs[TempPath(e)] /\ g.content = Full
             /\ (g # f /\ upc = "off") => reader[e] = Nil /\ reader'[e] = Nil
      ]_vars

\* a downloaded file has just been renamed onto localPath of an entry whose
\* reader is installed, while a broken-off download lies at some .new path
C17_Witness ==
    \E e, d \in Entries :
        /\ ucur = e /\ upc = "open" /\ reader[e] # Nil
        /\ fs[LocalPath(e)].content = Full
        /\ fs[LocalPath(e)].mtime >= cycleStart
        /\ fs[TempPath(d)].content = Partial

\* C18: while a download of the refresh task is in progress, however long
\* it takes, the task holds or awaits no entry's exclusive lock, so a lookup
\* can take the shared lock of every entry.
C18_NoLockWhileDownloading ==
    upc \in DlPcs =>
        \A e \in Entries : wlock[e] = "free" /\ CanRLock(e)

\* a download has been waiting for the network for a day; meanwhile one
\* handler is inside a lookup on the same entry and another has finished
C18_Witness ==
    /\ upc = "dl_get" /\ now > cycleStart
    /\ \E w, x \in Workers :
         InLookup(w, ucur) /\ res[x] = "ok" /\ rpc[x] = "idle"

\* C19 (as claimed): the rename and the open of the new file happen outside
\* the exclusive hold: the refresh task is at neither step while it holds
\* the entry's lock.
C19_NoIOUnderLock ==
    \A e \in Entries :
        wlock[e] = "held" => ~(ucur = e /\ upc \in {"rename", "reopen", "open"})

\* C20: initDatabases runs once, to the end, before anything else: the
\* updater and the request handlers run only after it has returned nil, with
\* every reader and lastUpdate set; it visits no entry twice and does not
\* run again; after an error neither the updater nor a handler ever runs.
C20_InitBeforeServing ==
    [][/\ (upc' # "off" \/ \E w \in Workers : rpc'[w] # "off") =>
             /\ ipc' = "done"
             /\ \A e \in Entries : reader'[e] # Nil /\ lastUpdate'[e] # Zero
       /\ ipending' \subseteq ipending
       /\ ipc = "done" => ipc' = "done"
       /\ ipc = "fatal" =>
             /\ ipc' = "fatal" /\ upc' = "off"
             /\ \A w \in Workers : rpc'[w] = "off"
             /\ dbVars' = dbVars
      ]_vars

\* after a successful start a refresh cycle and a lookup have both completed
C20_Witness ==
    /\ ipc = "done" /\ LoopDone
    /\ \E e \in Entries : outcome[e] = "ok"
    /\ \E w \in Workers : res[w] = "ok"

\* --------------------------------------------- claims on request handling -
\* a request has been answered by handleIPLookup (never 403) / at all
Answered == httpReq # NoRequest
LookedUp == Answered /\ httpResp.status # StatusForbidden

\* the reader installed for e answers lookups with an error
Failing(e) == handles[e][reader[e]].closes > 0

\* C21: the lookups are made in the order ASN, city, country; the first one
\* that fails ends getIPInfo: no later lookup is made, no partial result is
\* returned, the error names the lookup that failed, and handleIPLookup
\* answers 500 with that message in the body.
C21_FirstFailureAborts ==
    (LookedUp /\ ParseIP(httpResp.ip)) =>
        LET calls == httpResp.calls
            n     == Len(calls)
            name  == [asn |-> "ASN lookup error", city |-> "city lookup error",
                      country |-> "country lookup error"]
        IN  /\ n \in 1..3
            /\ calls = SubSeq(<<"asn", "city", "country">>, 1, n)
            /\ \A i \in 1..(n - 1) : ~Failing(calls[i])
            /\ IF \E e \in Entries : Failing(e)
                 THEN /\ Failing(calls[n])
                      /\ httpResp.status = StatusInternalServerError
                      /\ httpResp.body =
                           <<"Error getting IP info: ", name[calls[n]]>>
                      /\ getIPInfo.info = FALSE
                      /\ getIPInfo.err = name[calls[n]]
                 ELSE /\ n = 3
                      /\ httpResp.status = StatusOK
                      /\ httpResp.body = <<"ipInfo">>

\* the ASN lookup succeeded, the city lookup failed, and the country
\* database, failing too, was never asked
C21_Witness ==
    /\ LookedUp
    /\ ~Failing("asn") /\ Failing("city") /\ Failing("country")
    /\ httpResp.calls = <<"asn", "city">>
    /\ httpResp.status = StatusInternalServerError

\* the request passes the host check
HostAccepted ==
    \/ config.Host = <<>>
    \/ httpReq.host = config.Host
    \/ \E i \in 1..Len(httpReq.host) :
         /\ httpReq.host[i] = ":"
         /\ SubSeq(httpReq.host, 1, i - 1) = config.Host

\* the one segment x of a path /ipgeo/x (x may hold several tokens, none of
\* them a slash), or NoEntry when the path is not of that form
Segment(path) ==
    IF /\ Len(path) >= 3
       /\ SubSeq(path, 1, 3) = <<"/", "ipgeo", "/">>
       /\ \A i \in 4..Len(path) : path[i] # "/"
      THEN SubSeq(path, 4, Len(path))
      ELSE NoEntry

\* C22: a lookup is performed only for the path /ipgeo, on the client's
\* address, or for a path /ipgeo/x with exactly one segment x, on x; every
\* other path is answered 403 Forbidden without any database lookup.
C22_OnlyIpgeoPaths ==
    (Answered /\ HostAccepted) =>
        IF httpReq.path = <<"/", "ipgeo">>
          THEN /\ httpResp.status # StatusForbidden
               /\ httpResp.ip = getClientIP(httpReq)
        ELSE IF Segment(httpReq.path) # NoEntry
          THEN /\ httpResp.status # StatusForbidden
               /\ httpResp.ip = Segment(httpReq.path)
        ELSE /\ httpResp.status = StatusForbidden
             /\ httpResp.body = <<"Forbidden">>
             /\ httpResp.calls = <<>>

\* a path two segments deep under /ipgeo, its first segment a valid
\* address, has been refused
C22_Witness ==
    /\ Answered /\ HostAccepted
    /\ httpReq.path = <<"/", "ipgeo", "/", "ip", "/", "x">>
    /\ httpResp.status = StatusForbidden
    /\ \A e \in Entries : ~Failing(e)

\* C23: with config.Host set, a request whose Host header, port stripped,
\* differs from it is answered 403 before any routing or lookup, and a
\* request whose Host matches is served as if no host were configured; with
\* config.Host empty the Host header has no effect on the answer.
C23_HostCheck ==
    Answered =>
        /\ ~HostAccepted =>
              /\ httpResp.status = StatusForbidden
              /\ httpResp.body = <<"Forbidden">>
              /\ httpResp.calls = <<>> /\ httpResp.ip = <<>>
        /\ HostAccepted =>
              \A h \in ReqHosts :
                  httpResp = handleRequest([httpReq EXCEPT !.host = h],
                                           [config EXCEPT !.Host = <<>>])

\* the configured host is geo; a request for geo:80 was served and one for
\* evil would have been refused
C23_Witness ==
    /\ Answered
    /\ config.Host = <<"geo">>
    /\ httpReq.host = <<"geo", ":", "80">>
    /\ httpResp.status = StatusOK
    /\ handleRequest([httpReq EXCEPT !.host = <<"evil">>], config).status
         = StatusForbidden

\* C24: handleIPLookup answers 400, without consulting a database, when the
\* string does not parse as an IP address; 500 when getIPInfo returns an
\* error; 200 otherwise; it has no other outcome.
C24_ThreeOutcomes ==
    LookedUp =>
        /\ httpResp.status
             \in {StatusBadRequest, StatusInternalServerError, StatusOK}
        /\ (httpResp.status = StatusBadRequest) <=> (httpResp.ip # <<"ip">>)
        /\ httpResp.status = StatusBadRequest =>
              /\ httpResp.calls = <<>>
              /\ httpResp.body = <<"Invalid IP address">>
        /\ (httpResp.status = StatusInternalServerError) <=>
              (httpResp.ip = <<"ip">> /\ \E e \in Entries : Failing(e))
        /\ (httpResp.status = StatusOK) <=>
              (httpResp.ip = <<"ip">> /\ \A e \in Entries : ~Failing(e))

\* text that is no address was refused although every database is failing
C24_Witness ==
    /\ LookedUp
    /\ httpReq.path = <<"/", "ipgeo", "/", "x">>
    /\ httpResp.status = StatusBadRequest
    /\ \A e \in Entries : Failing(e)

\* r is s without its leading and trailing spaces
IsTrimOf(r, s) ==
    /\ r = <<>> \/ (r[1] # " " /\ r[Len(r)] # " ")
    /\ \E i \in 1..(Len(s) + 1), j \in 0..Len(s) :
         /\ r = SubSeq(s, i, j)
         /\ \A k \in 1..Len(s) : (k < i \/ k > j) => s[k] = " "

\* the text of s before its first comma
BeforeComma(s) ==
    IF \E i \in 1..Len(s) : s[i] = ","
      THEN SubSeq(s, 1, (CHOOSE i \in 1..Len(s) :
                            s[i] = "," /\ \A k \in 1..(i - 1) : s[k] # ",") - 1)
      ELSE s

\* C25: with a non-empty X-Forwarded-For header getClientIP returns its
\* first comma-separated element, trimmed, valid or not; otherwise the host
\* part of RemoteAddr, or RemoteAddr as it is when it does not split into
\* host and port; X-Real-IP never changes the result.
C25_ClientIP ==
    (LookedUp /\ httpReq.path = <<"/", "ipgeo">>) =>
        LET ip    == httpResp.ip
            addr  == httpReq.remote
            colon == {i \in 1..Len(addr) : addr[i] = ":"}
        IN  /\ httpReq.xff # <<>> => IsTrimOf(ip, BeforeComma(httpReq.xff))
            /\ (httpReq.xff = <<>> /\ Cardinality(colon) = 1) =>
                  \A i \in colon : ip = SubSeq(addr, 1, i - 1)
            /\ (httpReq.xff = <<>> /\ Cardinality(colon) # 1) => ip = addr
            /\ \A x \in ReqXReals :
                  handleRequest([httpReq EXCEPT !.xreal = x], config) = httpResp

\* X-Forwarded-For starts with text that is no address and X-Real-IP holds
\* a valid one: the former was taken, and refused
C25_Witness ==
    /\ LookedUp /\ httpReq.path = <<"/", "ipgeo">>
    /\ httpReq.xff = <<"x", ",", "ip">>
    /\ httpReq.xreal = <<"ip">>
    /\ httpReq.remote = <<"ip", ":", "80">>
    /\ httpResp.ip = <<"x">>
    /\ httpResp.status = StatusBadRequest

\* ------------------------------------------- claims on downloadDatabase --
\* the call has returned
Returned == dlErr # "pending"

\* the response status is in the 2xx (successful) class
Success2xx(status) == status \in 200..299

\* C26 (as claimed, a success status being any 2xx status): an error when
\* the GET fails or the status is not a success status; nil, with dest
\* holding exactly the body, when the status is a success status and the
\* body is fully streamed.
C26_SuccessStatusDownloads ==
    Returned =>
        /\ (~dlEnv.getOk \/ ~Success2xx(dlEnv.status)) => dlErr # NoErr
        /\ (/\ dlEnv.createOk /\ dlEnv.getOk
            /\ Success2xx(dlEnv.status) /\ dlEnv.copyOk) =>
              /\ dlErr = NoErr
              /\ fs[dlEnv.dest] = File(Full, dlEnv.body, now)

\* C26: downloadDatabase returns an error when os.Create fails, the GET
\* fails, the status is anything but 200 (other 2xx statuses included) or
\* the copy fails; it returns nil, with dest holding exactly the body, when
\* the status is 200 and the body is fully streamed; dest is created or
\* truncated before the request is sent, and nothing but dest is touched.
C26_Only200Downloads ==
    Returned =>
        /\ (dlErr # NoErr) <=>
              (\/ ~dlEnv.createOk \/ ~dlEnv.getOk
               \/ dlEnv.status # 200 \/ ~dlEnv.copyOk)
        /\ dlErr = NoErr => fs[dlEnv.dest] = File(Full, dlEnv.body, now)
        /\ (dlEnv.createOk /\ (~dlEnv.getOk \/ dlEnv.status # 200)) =>
              fs[dlEnv.dest] = File(Empty, 0, now)
        /\ (dlEnv.createOk /\ dlErr # NoErr) => fs[dlEnv.dest].content # Full
        /\ \A q \in Paths \ {dlEnv.dest} : fs[q] = AbsentFile

\* the server answered 206 with a body that could be streamed to the end:
\* an error was returned and dest, truncated, is empty
C26_Witness ==
    /\ Returned
    /\ dlEnv.createOk /\ dlEnv.getOk /\ dlEnv.copyOk
    /\ dlEnv.status = 206
    /\ dlErr = "bad status"
    /\ fs[dlEnv.dest] = File(Empty, 0, now)

\* ------------------------------------------------- claims on start-up ----
\* how many of the certificate and key paths are set
PathsSet(c) ==
    (IF c.Cert # "" THEN 1 ELSE 0) + (IF c.Key # "" THEN 1 ELSE 0)

\* C27: validateSSLConfig returns an error exactly when SSL is disabled and
\* a certificate or key path is set, or SSL is enabled and exactly one of
\* the two is set; SSL with both or neither, and no SSL with neither, are
\* accepted.
C27_SSLRules ==
    bpc \in {"fatal", "run"} =>
        /\ (bootErr # NoErr) <=>
              (\/ ~config.SSL /\ PathsSet(config) >= 1
               \/ config.SSL /\ PathsSet(config) = 1)
        /\ (bpc = "fatal") <=> (bootErr # NoErr)
        /\ (config.SSL /\ PathsSet(config) \in {0, 2}) => bpc = "run"
        /\ (~config.SSL /\ PathsSet(config) = 0) => bpc = "run"

\* a configuration with SSL enabled and only the certificate set was
\* loaded from the file and refused
C27_Witness ==
    /\ bpc = "fatal"
    /\ config.SSL /\ config.Cert # "" /\ config.Key = ""
    /\ cfgDisk.file = JsonCfg(config)

\* every way a later call of ensureConfigFileExists can go leaves the file
\* on the disk d as it is
LaterCallsKeep(d) ==
    \A mkdirOk, statOk \in BOOLEAN, writeRes \in {"ok", "nofile", "partial"} :
        ensureConfigFileExists(d, mkdirOk, statOk, writeRes).disk.file = d.file

\* C28: ensureConfigFileExists leaves an existing file as it is; when the
\* file does not exist and the call returns nil, the file now holds the
\* default values and its directory exists; once the file exists, later
\* calls never modify it.
C28_EnsureIdempotent ==
    [][bpc = "ensure" =>
          /\ cfgDisk.file.kind # "absent" => cfgDisk'.file = cfgDisk.file
          /\ (cfgDisk.file.kind = "absent" /\ bootErr' = NoErr) =>
                /\ cfgDisk'.file = JsonCfg(defaultConfig)
                /\ cfgDisk'.dir # "missing"
          /\ cfgDisk'.file.kind # "absent" => LaterCallsKeep(cfgDisk')
      ]_vars

\* the directory was missing: it has been made and the default file written
C28_Witness ==
    /\ bpc = "load" /\ bootErr = NoErr
    /\ cfgDisk = Disk("made", JsonCfg(defaultConfig))

\* ------------------------------------------ claims on .new and the locks -
\* C29: during refresh a download writes to localPath + ".new" and nowhere
\* else, whether it is under way, fails or succeeds; the file at localPath
\* changes only in the step of a successful rename, to the file that was at
\* the .new path.
C29_DownloadOnlyToNew ==
    [][upc # "off" =>
          /\ upc \in DlPcs =>
                \A p \in Paths : fs'[p] # fs[p] => p = <<ucur, "new">>
          /\ \A e \in Entries :
                fs'[LocalPath(e)] # fs[LocalPath(e)] =>
                    /\ ucur = e /\ upc = "rename" /\ upc' = "open"
                    /\ fs'[LocalPath(e)] = fs[<<e, "new">>]
      ]_vars

\* a download has broken off in the middle of the body: part of it lies at
\* the .new path and the complete file at localPath is as the cycle found it
C29_Witness ==
    \E e \in Entries :
        /\ ucur = e /\ upc = "next" /\ outcome[e] = "dlfail"
        /\ fs[<<e, "new">>].content = Partial
        /\ fs[LocalPath(e)] = snap.file
        /\ fs[LocalPath(e)].content = Full

\* C30: a handler is inside a lookup call on an entry's reader only while
\* it holds that entry's shared lock; once the call has returned, with a
\* result or with an error, the handler holds no shared lock, whether it
\* goes on to the next lookup or has left getIPInfo.
C30_RLockAroundLookup ==
    \A w \in Workers :
        /\ rpc[w] = "call" => w \in readers[stage[w]]
        /\ \A e \in Entries :
              w \in readers[e] => stage[w] = e /\ rpc[w] \in {"call", "dead"}
        /\ rpc[w] \in {"idle", "rlock", "off"} =>
              \A e \in Entries : w \notin readers[e]
        /\ rpc[w] = "dead" => res[w] = "panic"

\* one handler has left getIPInfo with a lookup error and holds no lock
\* while another is inside a lookup, holding the entry's shared lock
C30_Witness ==
    \E w, x \in Workers :
        /\ rpc[w] = "idle" /\ res[w] = "err"
        /\ \A e \in Entries : w \notin readers[e]
        /\ rpc[x] = "call" /\ x \in readers[stage[x]]

\* ------------------------------------------- claims on writes and cycles -
\* C31: once initDatabases has returned, db.reader and db.lastUpdate of an
\* entry are written only by the refresh task while it holds the entry's
\* exclusive lock; no handler holds the shared lock or is inside a lookup
\* on that entry at that moment.
C31_WritesUnderLock ==
    [][ipc = "done" =>
          \A e \in Entries :
              (reader'[e] # reader[e] \/ lastUpdate'[e] # lastUpdate[e]) =>
                  /\ wlock[e] = "held" /\ ucur = e
                  /\ readers[e] = {}
                  /\ \A w \in Workers : ~(rpc[w] = "call" /\ stage[w] = e)
      ]_vars

\* the reader of an entry has just been replaced while a handler was
\* waiting for the entry's shared lock
C31_Witness ==
    \E e \in Entries, w \in Workers :
        /\ ucur = e /\ upc = "next" /\ outcome[e] = "ok"
        /\ reader[e] # snap.reader /\ lastUpdate[e] = now
        /\ rpc[w] = "rlock" /\ stage[w] = e

\* C32: a refresh cycle starts only when the one before has returned: at
\* that moment no entry is being visited and no lock is held; a tick that
\* falls due while a cycle is running starts nothing; every write to a
\* database file or a .new file is made by the one running cycle, for the
\* entry it is visiting.
C32_OneCycleAtATime ==
    [][/\ (cycleStart' # cycleStart /\ cycleStart' # Zero) =>
             /\ upc = "wait" /\ cycleStart = Zero /\ ucur = NoEntry
             /\ \A e \in Entries :
                   wlock[e] = "free" /\ dlCalls[e] = 0 /\ outcome[e] = "none"
       /\ upc \notin {"off", "wait"} =>
             /\ cycleStart' \in {cycleStart, Zero}
             /\ tickAt' = tickAt
             /\ upending' \subseteq upending
       /\ (fs' # fs /\ upc # "off") =>
             /\ cycleStart # Zero /\ cycleStart' = cycleStart
             /\ \A p \in Paths : fs'[p] # fs[p] => p[1] = ucur
      ]_vars

\* a download has taken so long that the next tick is due while the cycle
\* is still running
C32_Witness ==
    /\ upc = "dl_copy"
    /\ now >= tickAt
    /\ cycleStart = tickAt - TickDays

\* ------------------------------------------------- claims on retrying ----
\* at the next tick e will be found stale, the tick will come, and no step
\* will fail any more
DueAndSound(e) ==
    /\ upc = "wait" /\ reader[e] # Nil
    /\ tickAt - lastUpdate[e] >= StaleDays
    /\ tickAt <= MaxDay
    /\ faults = MaxFaults

\* the running cycle has replaced the reader of e and stamped the entry
Refreshed(e) ==
    /\ outcome[e] = "ok"
    /\ reader[e] = Len(handles[e]) /\ handles[e][reader[e]].closes = 0
    /\ reader[e] # snap.reader \/ ucur # e
    /\ lastUpdate[e] >= cycleStart /\ now - lastUpdate[e] < StaleDays

\* C33: an entry whose refresh attempt has failed is still stale; every
\* cycle that finds an entry stale attempts its download; and, the updater
\* being scheduled and the ticker ticking, from a point on from which no
\* step fails a stale entry gets a new reader and a new lastUpdate.
C33_RetryUntilRefreshed ==
    /\ [](\A e \in Entries :
             outcome[e] \in Failures =>
                 /\ now - lastUpdate[e] >= StaleDays
                 /\ ucur = e => lastUpdate[e] = snap.lastUpdate)
    /\ [](\A e \in Entries :
             (ageAt[e] # NotSeen /\ ageAt[e] >= StaleDays) =>
                 \/ dlCalls[e] = 1
                 \/ ucur = e /\ upc = "dl_create")
    /\ \A e \in Entries : DueAndSound(e) ~> Refreshed(e)

\* the swap of an entry failed in an earlier cycle; this cycle has found the
\* entry still stale and has refreshed it
C33_Witness ==
    \E e \in Entries :
        /\ e \in swapFailed
        /\ ucur = e /\ upc = "next" /\ Refreshed(e)
        /\ ageAt[e] > StaleDays
        /\ faults = MaxFaults

\* C34: whatever Close returns, the swap goes on with the rename; after a
\* Close that returned an error a rename that succeeds is followed by the
\* open, and an open that succeeds installs the new reader, sets lastUpdate
\* to now and releases the lock.
C34_CloseErrorIgnored ==
    [][/\ upc = "close" => upc' = "rename" /\ wlock' = wlock
       /\ (closeErr = "err" /\ upc = "rename" /\ faults' = faults) =>
             /\ upc' = "open" /\ closeErr' = "err"
             /\ fs'[LocalPath(ucur)] = fs[<<ucur, "new">>]
       /\ (closeErr = "err" /\ upc = "open" /\ faults' = faults
           /\ Openable(fs[LocalPath(ucur)])) =>
             /\ reader'[ucur] = Len(handles'[ucur])
             /\ reader'[ucur] # reader[ucur]
             /\ handles'[ucur][reader'[ucur]] = NewHandle(fs[LocalPath(ucur)])
             /\ lastUpdate'[ucur] = now
             /\ outcome'[ucur] = "ok"
             /\ wlock'[ucur] = "free"
      ]_vars

\* Close returned an error, and the new reader is installed, stamped now
C34_Witness ==
    /\ closeErr = "err"
    /\ upc = "next" /\ outcome[ucur] = "ok"
    /\ reader[ucur] # snap.reader
    /\ handles[ucur][reader[ucur]].closes = 0
    /\ handles[ucur][snap.reader].closes = 1
    /\ lastUpdate[ucur] = now

\* ------------------------------------------------- claims on the locks ---
\* the entries whose shared lock handler w holds
HeldBy(w) == {e \in Entries : w \in readers[e]}

\* the entries whose exclusive lock the refresh task holds or awaits
Locked == {e \in Entries : wlock[e] # "free"}

\* C35: a handler holds the shared lock of at most one entry and the
\* refresh task the exclusive lock of at most one entry, the one it is
\* swapping; so the lock of every other entry can be taken by a lookup; and
\* whoever waits for a lock waits for a holder that can take its next step.
C35_OneLockAtATime ==
    /\ \A w \in Workers : Cardinality(HeldBy(w)) <= 1
    /\ Cardinality(Locked) <= 1
    /\ \A e \in Locked :
          /\ ucur = e
          /\ upc \in {"lock_wait", "close", "rename", "reopen", "open"}
    /\ \A e \in Entries \ {ucur} : CanRLock(e)
    /\ \A w \in Workers :
          (rpc[w] = "rlock" /\ ~ENABLED ReqRLock(w)) =>
              /\ stage[w] = ucur
              /\ ENABLED (UpdLockAcquire \/ UpdClose \/ UpdRename
                            \/ UpdReopen \/ UpdOpen)
                 \/ \E x \in readers[ucur] : ENABLED ReqLookup(x)
    /\ (upc = "lock_wait" /\ ~ENABLED UpdLockAcquire) =>
          \E x \in readers[ucur] : ENABLED ReqLookup(x)

\* the City entry is in the middle of its swap, one handler waits for its
\* lock and another is inside a lookup on the Country entry
C35_Witness ==
    \E w, x \in Workers :
        /\ wlock["city"] = "held" /\ upc = "rename"
        /\ rpc[w] = "rlock" /\ stage[w] = "city"
        /\ rpc[x] = "call" /\ stage[x] = "country"
        /\ x \in readers["country"]

\* C36: the refresh task holds or awaits an exclusive lock only between
\* Lock and the end of the swap of the entry it is visiting; after each way
\* a visit can end (download failure, rename failure with the old file
\* reopened or not, open failure, success) and when the cycle has ended, no
\* entry's lock is held.
C36_LockReleasedOnEveryPath ==
    /\ \A e \in Entries :
          wlock[e] # "free" => ucur = e /\ upc \in {"lock_wait"} \cup SwapPcs
    /\ upc \in {"off", "wait", "next"} => \A e \in Entries : wlock[e] = "free"
    /\ \A e \in Entries :
          outcome[e] \in Failures \cup {"ok", "fresh"} => wlock[e] = "free"

\* a cycle has gone through a rename failure on one entry and an open
\* failure on another, and holds no lock
C36_Witness ==
    /\ LoopDone
    /\ \E e, d \in Entries :
          outcome[e] = "renamefail" /\ outcome[d] = "openfail"
    /\ \A e \in Entries : wlock[e] = "free"

\* C37 (as claimed): over any number of refresh cycles Close is called at
\* most once on any reader handle.
C37_CloseAtMostOnce ==
    \A e \in Entries :
        \A i \in 1..Len(handles[e]) : handles[e][i].closes <= 1

\* ------------------------------------------------ claims on start-up -----
\* a file that a broken-off download has left behind
Leftover(f) == f.content \in {Empty, Partial}

InitFailedAt(e) ==
    /\ e \notin ipending
    /\ reader[e] = Nil
    /\ ~(icur = e /\ ipc \in DlPcs \cup {"open"})

\* C39: initDatabases visits one entry at a time and returns at the first
\* one whose download or open fails: that entry has no reader, the entries
\* not yet visited have a nil reader and a zero lastUpdate, and the entries
\* visited before it keep their readers installed and open; nothing runs
\* afterwards.
C39_InitStopsAtFirstFailure ==
    /\ \A e \in Entries :
          InitFailedAt(e) =>
              /\ ipc = "fatal" /\ icur = e
              /\ upc = "off"
    /\ \A e \in ipending :
          reader[e] = Nil /\ lastUpdate[e] = Zero /\ handles[e] = <<>>
    /\ \A e \in Entries \ ipending :
          ~(icur = e /\ ipc \in DlPcs \cup {"open", "fatal"}) =>
              /\ reader[e] # Nil /\ lastUpdate[e] # Zero
              /\ upc = "off" => ReaderOpen(e) /\ Len(handles[e]) = 1

\* initDatabases has returned an error at the second entry it visited: the
\* first keeps its open reader, the third was never visited
C39_Witness ==
    \E a, b, c \in Entries :
        /\ ipc = "fatal" /\ icur = b /\ ipending = {c}
        /\ a \notin {b, c}
        /\ ReaderOpen(a) /\ lastUpdate[a] # Zero
        /\ reader[b] = Nil
        /\ reader[c] = Nil /\ lastUpdate[c] = Zero

\* the first delivery of the 24-hour ticker after process start
FirstTickDue == Day0 + TickDays

\* C40: the updater checks staleness only in a cycle started by a tick of
\* the 24-hour ticker, and none happens at startup: before the first tick
\* the goroutine is not started or sits in its select, no age has been
\* read, no download was made and no ".new" file exists, so an entry that
\* is at least StaleDays old when initDatabases returns keeps its file and
\* its lastUpdate until the first tick.
C40_NoCheckBeforeFirstTick ==
    /\ now < FirstTickDue =>
          /\ upc \in {"off", "wait"}
          /\ \A e \in Entries :
                /\ ageAt[e] = NotSeen /\ dlCalls[e] = 0
                /\ fs[TempPath(e)] = AbsentFile
                /\ (ipc = "done" /\ Day0 - lastUpdate[e] >= StaleDays) =>
                      /\ fs[LocalPath(e)] = OldFs[LocalPath(e)]
                      /\ lastUpdate[e] = OldFs[LocalPath(e)].mtime
    /\ upc \notin {"off", "wait"} =>
          /\ cycleStart >= FirstTickDue
          /\ tickAt = cycleStart + TickDays
    /\ \A e \in Entries : ageAt[e] # NotSeen => upc \notin {"off", "wait"}

\* initDatabases has returned, the updater waits for its first tick, and
\* an entry with an open reader is already StaleDays old
C40_Witness ==
    /\ ipc = "done" /\ upc = "wait" /\ now < FirstTickDue
    /\ \E e \in Entries :
          /\ reader[e] # Nil
          /\ now - lastUpdate[e] >= StaleDays
          /\ dlCalls[e] = 0

====
